---- MODULE Spec2Model ----
(***************************************************************************)
(* Batch ZIP-archive invoice pipeline of src/invoice_processor.py:         *)
(* create_processor, InvoiceProcessor.extract_zip_files,                   *)
(* process_single_file_worker run by a multiprocessing Pool, and the       *)
(* collection loop / CSV assembly of InvoiceProcessor.process_zip_file.    *)
(*                                                                         *)
(* Texts that the code inspects piecewise (file names, LLM responses) are  *)
(* sequences: a file name is a sequence of characters, an LLM response is  *)
(* a sequence of lexemes (punctuation, string literal, numeral, word,      *)
(* white space, code fence).                                               *)
(***************************************************************************)
EXTENDS Integers, Sequences, FiniteSets, TLC

\* Largest number of entries of an archive.
MaxFiles == 2
\* processors of the host on which the batches of Spec run
HostCpus == 3
\* largest number of processors in the batches of SpecWorkers
MaxCpu == 64
\* largest number of lexemes of an LLM response in the batches of SpecUnwrap
MaxResp == 4

NA == "N/A"

\* ------------------------------------------------------------------------
\* Lexemes of a response text
\* ------------------------------------------------------------------------
Lx(k, s) == [k |-> k, s |-> s]
P(s) == Lx("punct", s)
S(s) == Lx("str", s)
N(s) == Lx("num", s)
W(s) == Lx("word", s)
Ws == Lx("ws", " ")
Null == Lx("null", "null")
\* the opening code fence (three backquotes followed by json) and the closing one
FenceJson == Lx("fence", "json")
Fence == Lx("fence", "")

\* ------------------------------------------------------------------------
\* Python values produced by json.loads
\* ------------------------------------------------------------------------
EmptyDict == [k \in {} |-> k]

JStr(s) == [t |-> "str", s |-> s, l |-> <<>>, d |-> EmptyDict]
JNum(s) == [t |-> "num", s |-> s, l |-> <<>>, d |-> EmptyDict]
JNone == [t |-> "none", s |-> "None", l |-> <<>>, d |-> EmptyDict]
JList(l) == [t |-> "list", s |-> "", l |-> l, d |-> EmptyDict]
JDict(d) == [t |-> "dict", s |-> "", l |-> <<>>, d |-> d]

\* dict[key] = value of a dict under construction (a later key wins).
DictPut(d, key, v) == [k \in DOMAIN d \cup {key} |-> IF k = key THEN v ELSE d[k]]

\* str(v)
PyStr(v) ==
    CASE v.t = "str" -> v.s
      [] v.t = "num" -> v.s
      [] v.t = "none" -> "None"
      [] v.t = "list" -> IF v.l = <<>> THEN "[]" ELSE "[...]"
      [] v.t = "dict" -> IF DOMAIN v.d = {} THEN "{}" ELSE "{...}"

\* bool(v), as the test of items uses it
PyTruthy(v) ==
    CASE v.t = "str" -> v.s # ""
      [] v.t = "num" -> v.s # "0"
      [] v.t = "none" -> FALSE
      [] v.t = "list" -> v.l # <<>>
      [] v.t = "dict" -> DOMAIN v.d # {}

\* ------------------------------------------------------------------------
\* json.loads over a lexeme sequence
\* ------------------------------------------------------------------------
ParseFail == [ok |-> FALSE, v |-> JNone, rest |-> <<>>]
ParseOk(v, rest) == [ok |-> TRUE, v |-> v, rest |-> rest]

RECURSIVE SkipWs(_)
SkipWs(t) == IF t # <<>> /\ Head(t).k = "ws" THEN SkipWs(Tail(t)) ELSE t

RECURSIVE ParseValue(_)
RECURSIVE ParseElements(_, _)
RECURSIVE ParseMembers(_, _)

\* elements of an array, after its opening bracket or a comma
ParseElements(t0, acc) ==
    LET r == ParseValue(t0) IN
    IF ~r.ok THEN ParseFail
    ELSE LET t == SkipWs(r.rest) IN
         IF t = <<>> THEN ParseFail
         ELSE IF Head(t) = P(",") THEN ParseElements(Tail(t), Append(acc, r.v))
         ELSE IF Head(t) = P("]") THEN ParseOk(JList(Append(acc, r.v)), Tail(t))
         ELSE ParseFail

\* members of an object, after its opening brace or a comma
ParseMembers(t0, acc) ==
    LET t == SkipWs(t0) IN
    IF t = <<>> \/ Head(t).k # "str" THEN ParseFail
    ELSE LET t1 == SkipWs(Tail(t)) IN
         IF t1 = <<>> \/ Head(t1) # P(":") THEN ParseFail
         ELSE LET r == ParseValue(Tail(t1)) IN
              IF ~r.ok THEN ParseFail
              ELSE LET t2 == SkipWs(r.rest)
                       d == DictPut(acc, Head(t).s, r.v) IN
                   IF t2 = <<>> THEN ParseFail
                   ELSE IF Head(t2) = P(",") THEN ParseMembers(Tail(t2), d)
                   ELSE IF Head(t2) = P("}") THEN ParseOk(JDict(d), Tail(t2))
                   ELSE ParseFail

ParseValue(t0) ==
    LET t == SkipWs(t0) IN
    IF t = <<>> THEN ParseFail
    ELSE LET h == Head(t)
             r == SkipWs(Tail(t)) IN
         CASE h.k = "str" -> ParseOk(JStr(h.s), Tail(t))
           [] h.k = "num" -> ParseOk(JNum(h.s), Tail(t))
           [] h.k = "null" -> ParseOk(JNone, Tail(t))
           [] h = P("[") -> IF r # <<>> /\ Head(r) = P("]")
                            THEN ParseOk(JList(<<>>), Tail(r))
                            ELSE ParseElements(Tail(t), <<>>)
           [] h = P("{") -> IF r # <<>> /\ Head(r) = P("}")
                            THEN ParseOk(JDict(EmptyDict), Tail(r))
                            ELSE ParseMembers(Tail(t), EmptyDict)
           [] OTHER -> ParseFail

\* json.loads(text): one value, then nothing but white space
JsonLoads(t) ==
    LET r == ParseValue(t) IN
    IF r.ok /\ SkipWs(r.rest) = <<>> THEN r ELSE ParseFail

\* ------------------------------------------------------------------------
\* Response unwrapping (process_single_file_worker, lines 75-87)
\* ------------------------------------------------------------------------
RECURSIVE RStripWs(_)
RStripWs(t) ==
    IF t # <<>> /\ t[Len(t)].k = "ws" THEN RStripWs(SubSeq(t, 1, Len(t) - 1)) ELSE t

\* str.strip()
Strip(t) == RStripWs(SkipWs(t))

\* the two fence removals of lines 76-79, applied to the stripped content
RemoveFences(content) ==
    LET t0 == Strip(content)
        t1 == IF t0 # <<>> /\ Head(t0) = FenceJson THEN Strip(Tail(t0)) ELSE t0
    IN IF t1 # <<>> /\ t1[Len(t1)] = Fence
       THEN Strip(SubSeq(t1, 1, Len(t1) - 1)) ELSE t1

\* str.find(c) and str.rfind(c): 0-based index, -1 when absent
Find(t, c) ==
    IF \E i \in 1..Len(t) : t[i] = c
    THEN (CHOOSE i \in 1..Len(t) : t[i] = c /\ \A j \in 1..(i - 1) : t[j] # c) - 1
    ELSE -1

\* mutant: the closing brace is searched from the left as well
RFindFirst(t, c) == Find(t, c)

RFind(t, c) ==
    IF \E i \in 1..Len(t) : t[i] = c
    THEN (CHOOSE i \in 1..Len(t) : t[i] = c /\ \A j \in (i + 1)..Len(t) : t[j] # c) - 1
    ELSE -1

\* response_text[json_start:json_end]
Slice(t, from, to) == SubSeq(t, from + 1, to)

NoJsonMsg == "No JSON object found in response: line 1 column 1 (char 0)"
JsonErrMsg == "Expecting value: line 1 column 1 (char 0)"

\* lines 81-87: the parsed object, or the JSONDecodeError raised
ExtractJson(content) ==
    LET response_text == RemoveFences(content)
        json_start == Find(response_text, P("{"))
        json_end == RFind(response_text, P("}")) + 1
    IN IF json_start >= 0 /\ json_end > json_start
       THEN LET r == JsonLoads(Slice(response_text, json_start, json_end))
            IN IF r.ok THEN [raised |-> FALSE, msg |-> "", data |-> r.v]
               ELSE [raised |-> TRUE, msg |-> JsonErrMsg, data |-> JNone]
       ELSE [raised |-> TRUE, msg |-> NoJsonMsg, data |-> JNone]

\* ------------------------------------------------------------------------
\* Records (process_single_file_worker, lines 89-120 and 132-142)
\* ------------------------------------------------------------------------
fieldnames ==
    <<"source_file", "invoice_number", "invoice_date", "customer_name",
      "customer_address", "item_description", "qty", "processing_error">>

FieldSet == {fieldnames[i] : i \in 1..Len(fieldnames)}

HeaderKeys == {"invoice_number", "invoice_date", "customer_name", "customer_address"}
ItemKeys == {"item_description", "qty"}

\* how a try body ends: by raising msg, or by returning records
Raised(msg) == [raised |-> TRUE, msg |-> msg, records |-> <<>>]
Returned(records) == [raised |-> FALSE, msg |-> "", records |-> records]

\* dict.get(key, "N/A") followed by str()
GetStr(data, key) == IF key \in DOMAIN data.d THEN PyStr(data.d[key]) ELSE NA

\* mutant: the header portion is the parsed object itself plus source_file
InvoiceInfoLeak(file_name, extracted_data) ==
    [k \in {"source_file"} \cup HeaderKeys \cup (DOMAIN extracted_data.d \ {"items"}) |->
        IF k = "source_file" THEN file_name ELSE GetStr(extracted_data, k)]

\* lines 89-95
InvoiceInfo(file_name, extracted_data) ==
    [k \in {"source_file"} \cup HeaderKeys |->
        IF k = "source_file" THEN file_name ELSE GetStr(extracted_data, k)]

\* record = invoice_info.copy(); record.update({...})
WithItem(invoice_info, desc, qty) ==
    [k \in DOMAIN invoice_info \cup ItemKeys |->
        IF k = "item_description" THEN desc
        ELSE IF k = "qty" THEN qty
        ELSE invoice_info[k]]

RECURSIVE ExpandItems(_, _)

\* mutant: an element that is no dict still yields a record, with N/A fields
RECURSIVE ExpandItemsAll(_, _)
ExpandItemsAll(invoice_info, items) ==
    IF items = <<>> THEN <<>>
    ELSE LET item == Head(items)
             rest == ExpandItemsAll(invoice_info, Tail(items))
         IN IF item.t = "dict"
            THEN <<WithItem(invoice_info, GetStr(item, "item_description"),
                            GetStr(item, "qty"))>> \o rest
            ELSE <<WithItem(invoice_info, NA, NA)>> \o rest

\* lines 109-117: one record per element that is a dict
ExpandItems(invoice_info, items) ==
    IF items = <<>> THEN <<>>
    ELSE LET item == Head(items)
             rest == ExpandItems(invoice_info, Tail(items))
         IN IF item.t = "dict"
            THEN <<WithItem(invoice_info, GetStr(item, "item_description"),
                            GetStr(item, "qty"))>> \o rest
            ELSE rest

NotIterableMsg == "object is not iterable"

\* mutant: empty or absent items run the loop, which appends nothing
BuildRecordsNoDefault(file_name, extracted_data) ==
    LET invoice_info == InvoiceInfo(file_name, extracted_data)
        items == IF "items" \in DOMAIN extracted_data.d
                 THEN extracted_data.d["items"] ELSE JList(<<>>)
    IN CASE items.t = "list" -> Returned(ExpandItems(invoice_info, items.l))
         [] items.t = "num" -> Raised(NotIterableMsg)
         [] OTHER -> Returned(<<>>)

\* lines 97-120: the records of a parsed response, or the TypeError of
\* iterating a number
BuildRecords(file_name, extracted_data) ==
    LET invoice_info == InvoiceInfo(file_name, extracted_data)
        items == IF "items" \in DOMAIN extracted_data.d
                 THEN extracted_data.d["items"] ELSE JList(<<>>)
    IN IF ~PyTruthy(items)
       THEN Returned(<<WithItem(invoice_info, NA, NA)>>)
       ELSE CASE items.t = "list" -> Returned(ExpandItems(invoice_info, items.l))
              [] items.t = "num" -> Raised(NotIterableMsg)
              \* iterating a string yields characters, a dict its keys: no dict
              [] OTHER -> Returned(<<>>)

\* lines 132-142
ErrorRecord(file_name, msg) ==
    [f \in FieldSet |->
        IF f = "source_file" THEN file_name
        ELSE IF f = "processing_error" THEN msg
        ELSE NA]

\* ------------------------------------------------------------------------
\* Files of an archive.  A file is its place in the extracted tree (root,
\* file) together with what the collaborators answer for it: which call
\* raises (step) and the content of the LLM response (resp).
\* ------------------------------------------------------------------------
File(root, name, step, resp) == [root |-> root, file |-> name, step |-> step, resp |-> resp]

\* os.path.join(root, file) and os.path.basename(path)
PathJoin(root, file) == [root |-> root, file |-> file]
Basename(path) == path.file

WidgetItem == <<P("{"), S("item_description"), P(":"), S("Widget"), P(","),
                S("qty"), P(":"), N("2"), P("}")>>
BoltItem == <<P("{"), S("item_description"), P(":"), S("Bolt"), P(","),
              S("qty"), P(":"), N("5"), P("}")>>

\* fenced: {"invoice_number":"INV-1","items":[{"item_description":"Widget","qty":2}]}
RespWidget ==
    <<Ws, FenceJson, Ws, P("{"), S("invoice_number"), P(":"), S("INV-1"), P(","),
      S("items"), P(":"), P("[")>> \o WidgetItem \o <<P("]"), P("}"), Ws, Fence, Ws>>

\* preamble and postamble around an object with an undeclared key and two items
RespTwo ==
    <<W("Here"), Ws, P("{"), S("customer_name"), P(":"), S("ACME"), P(","),
      S("vendor_name"), P(":"), S("Initech"), P(","),
      S("items"), P(":"), P("[")>> \o WidgetItem \o <<P(","), Ws>> \o BoltItem
      \o <<P("]"), P("}"), Ws, W("Done")>>

\* {"invoice_number":"INV-3","invoice_date":"2024-01-05"}
RespNoItems ==
    <<P("{"), S("invoice_number"), P(":"), S("INV-3"), P(","),
      S("invoice_date"), P(":"), S("2024-01-05"), P("}")>>

\* {"invoice_number":"INV-4","items":[]}
RespEmptyItems ==
    <<P("{"), S("invoice_number"), P(":"), S("INV-4"), P(","),
      S("items"), P(":"), P("["), P("]"), P("}")>>

\* {"invoice_number":null,"items":[{"item_description":"Widget"}]}
RespNull ==
    <<P("{"), S("invoice_number"), P(":"), Null, P(","), S("items"), P(":"), P("["),
      P("{"), S("item_description"), P(":"), S("Widget"), P("}"), P("]"), P("}")>>

\* {"items":[1,{"item_description":"Widget","qty":2}]}
RespMixed ==
    <<P("{"), S("items"), P(":"), P("["), N("1"), P(",")>> \o WidgetItem
      \o <<P("]"), P("}")>>

\* {"invoice_number":"INV-7","items":[1]}
RespNonDict ==
    <<P("{"), S("invoice_number"), P(":"), S("INV-7"), P(","),
      S("items"), P(":"), P("["), N("1"), P("]"), P("}")>>

\* no brace at all
RespNoJson == <<W("Sorry"), Ws, W("unreadable")>>

\* {"invoice_number":}
RespBad == <<P("{"), S("invoice_number"), P(":"), P("}")>>

\* {"items":2}
RespItemsNum == <<P("{"), S("items"), P(":"), N("2"), P("}")>>

Catalogue ==
    { File(<<>>, <<"a", ".", "p", "d", "f">>, "ok", RespWidget),
      File(<<"sub">>, <<"B", ".", "P", "D", "F">>, "ok", RespTwo),
      File(<<>>, <<"c", ".", "j", "p", "e", "g">>, "ok", RespNoItems),
      File(<<>>, <<"e", ".", "p", "n", "g">>, "ok", RespEmptyItems),
      File(<<>>, <<"f", ".", "T", "i", "f", "f">>, "ok", RespNull),
      File(<<>>, <<"g", ".", "b", "m", "p">>, "ok", RespMixed),
      File(<<>>, <<"h", ".", "j", "p", "g">>, "ok", RespNonDict),
      File(<<>>, <<"i", ".", "p", "d", "f">>, "ok", RespNoJson),
      File(<<>>, <<"j", ".", "p", "d", "f">>, "ok", RespBad),
      File(<<>>, <<"k", ".", "p", "d", "f">>, "ok", RespItemsNum),
      File(<<>>, <<"l", ".", "p", "d", "f">>, "ocr_raise", <<>>),
      File(<<>>, <<"m", ".", "p", "d", "f">>, "llm_raise", <<>>),
      File(<<>>, <<"n", ".", "p", "d", "f">>, "prompt_raise", <<>>),
      File(<<>>, <<"d", ".", "t", "x", "t">>, "ok", RespWidget),
      File(<<>>, <<"p", "d", "f">>, "ok", RespWidget) }

RECURSIVE SeqsUpTo(_, _)
SeqsUpTo(S0, n) ==
    IF n = 0 THEN {<<>>}
    ELSE LET shorter == SeqsUpTo(S0, n - 1)
         IN shorter \cup {Append(q, x) : q \in {r \in shorter : Len(r) = n - 1}, x \in S0}

\* an archive: unreadable, or its entries in the order os.walk yields them
Archives ==
    {[corrupt |-> TRUE, entries |-> <<>>]}
    \cup {[corrupt |-> FALSE, entries |-> e] : e \in SeqsUpTo(Catalogue, MaxFiles)}

\* ------------------------------------------------------------------------
\* Environment variables
\* ------------------------------------------------------------------------
CredentialVars == {"VISION_ENDPOINT", "VISION_KEY", "PEZZO_API_KEY", "PEZZO_PROJECT_ID_3"}
EnvVars == CredentialVars \cup {"AZURE_MODEL_DEPLOYMENT_NAME"}

FullEnv ==
    [v \in EnvVars |->
        CASE v = "VISION_ENDPOINT" -> "https://ocr.example"
          [] v = "VISION_KEY" -> "ocr-key"
          [] v = "PEZZO_API_KEY" -> "pezzo-key"
          [] v = "PEZZO_PROJECT_ID_3" -> "project-3"
          [] v = "AZURE_MODEL_DEPLOYMENT_NAME" -> "gpt-deployment"]

\* every variable set, one variable unset, or VISION_KEY set to the empty string
Envs ==
    {FullEnv}
    \cup {[v \in EnvVars \ {u} |-> FullEnv[v]] : u \in EnvVars}
    \cup {[FullEnv EXCEPT !["VISION_KEY"] = ""]}

\* truth value of os.getenv(name)
GetenvTruthy(e, name) == name \in DOMAIN e /\ e[name] # ""

\* ------------------------------------------------------------------------
\* process_single_file_worker
\* ------------------------------------------------------------------------
OcrMsg == "document could not be analyzed"
PromptMsg == "prompt ExtractionPrompt could not be fetched"
LlmMsg == "completion request failed"
DeploymentMsg == "AZURE_MODEL_DEPLOYMENT_NAME environment variable is not set"
KeyErrorMsg == "KeyError"
AttributeErrorMsg == "object has no attribute get"

\* lines 24-125: the body of the outer try
WorkerTry(file, credentials, e) ==
    IF ~({"azure_key", "azure_endpoint"} \subseteq DOMAIN credentials)
    THEN Raised(KeyErrorMsg)
    ELSE IF file.step = "ocr_raise" THEN Raised(OcrMsg)
    ELSE IF ~({"pezzo_api_key", "PEZZO_PROJECT_ID_3"} \subseteq DOMAIN credentials)
    THEN Raised(KeyErrorMsg)
    ELSE IF file.step = "prompt_raise" THEN Raised(PromptMsg)
    ELSE IF ~GetenvTruthy(e, "AZURE_MODEL_DEPLOYMENT_NAME") THEN Raised(DeploymentMsg)
    ELSE IF file.step = "llm_raise" THEN Raised(LlmMsg)
    ELSE LET j == ExtractJson(file.resp)
         IN IF j.raised THEN Raised(j.msg)
            ELSE IF j.data.t # "dict" THEN Raised(AttributeErrorMsg)
            ELSE BuildRecords(Basename(PathJoin(file.root, file.file)), j.data)

\* what a call of the worker hands to the pool: a returned value or an
\* exception that escaped the function
WorkerReturns(value) == [kind |-> "return", value |-> value, msg |-> ""]
WorkerRaises(msg) == [kind |-> "raise", value |-> <<>>, msg |-> msg]

\* mutant: the outer except clause logs and raises again
WorkerExceptReraise(file, msg) == WorkerRaises(msg)

\* lines 127-142: the outer except clause
WorkerExcept(file, msg) ==
    WorkerReturns(<<ErrorRecord(Basename(PathJoin(file.root, file.file)), msg)>>)

\* lines 16-142; args = (file_path, credentials), e the environment of the
\* worker process
process_single_file_worker(args, e) ==
    LET r == WorkerTry(args[1], args[2], e)
    IN IF r.raised THEN WorkerExcept(args[1], r.msg) ELSE WorkerReturns(r.records)

\* os.environ[name] = value
SetEnv(e, name, value) == [v \in DOMAIN e \cup {name} |-> IF v = name THEN value ELSE e[v]]

\* mutant: the worker also removes the deployment name from the environment
\* of its process
WorkerEnvAfterClobber(args, e) ==
    [v \in DOMAIN e \ {"AZURE_MODEL_DEPLOYMENT_NAME"} |-> e[v]]

\* lines 29-30: what a call of the worker leaves in the environment of the
\* process that ran it; nothing else of the process is written
WorkerEnvAfter(args, e) ==
    LET e1 == IF "azure_key" \in DOMAIN args[2]
              THEN SetEnv(e, "VISION_KEY", args[2]["azure_key"]) ELSE e
    IN IF {"azure_key", "azure_endpoint"} \subseteq DOMAIN args[2]
       THEN SetEnv(e1, "VISION_ENDPOINT", args[2]["azure_endpoint"]) ELSE e1

\* ------------------------------------------------------------------------
\* extract_zip_files
\* ------------------------------------------------------------------------
Uppers == <<"A", "B", "C", "D", "E", "F", "G", "H", "I", "J", "K", "L", "M",
            "N", "O", "P", "Q", "R", "S", "T", "U", "V", "W", "X", "Y", "Z">>
Lowers == <<"a", "b", "c", "d", "e", "f", "g", "h", "i", "j", "k", "l", "m",
            "n", "o", "p", "q", "r", "s", "t", "u", "v", "w", "x", "y", "z">>

LowerChar(c) ==
    IF \E i \in 1..Len(Uppers) : Uppers[i] = c
    THEN Lowers[CHOOSE i \in 1..Len(Uppers) : Uppers[i] = c]
    ELSE c

\* str.lower()
Lower(name) == [i \in 1..Len(name) |-> LowerChar(name[i])]

\* str.endswith(suffix)
EndsWith(name, suffix) ==
    /\ Len(name) >= Len(suffix)
    /\ SubSeq(name, Len(name) - Len(suffix) + 1, Len(name)) = suffix

ValidExtensions ==
    { <<".", "p", "d", "f">>, <<".", "p", "n", "g">>, <<".", "j", "p", "g">>,
      <<".", "j", "p", "e", "g">>, <<".", "t", "i", "f", "f">>, <<".", "b", "m", "p">> }

\* mutant: the suffixes are listed without their leading dot
IsValidDocumentNoDot(name) ==
    \E ext \in ValidExtensions : EndsWith(Lower(name), Tail(ext))

\* line 175
IsValidDocument(name) == \E ext \in ValidExtensions : EndsWith(Lower(name), ext)

\* lines 172-176: the walk over the extracted tree
RECURSIVE WalkFiles(_)
WalkFiles(entries) ==
    IF entries = <<>> THEN <<>>
    ELSE (IF IsValidDocument(Head(entries).file) THEN <<Head(entries)>> ELSE <<>>)
         \o WalkFiles(Tail(entries))

\* lines 165-181
extract_zip_files(zip) ==
    IF zip.corrupt THEN [raised |-> TRUE, files |-> <<>>]
    ELSE [raised |-> FALSE, files |-> WalkFiles(zip.entries)]

\* ------------------------------------------------------------------------
\* State
\* ------------------------------------------------------------------------
VARIABLES
    env,                \* os.environ of the process (inherited by the workers)
    archive,            \* the archive behind zip_path
    pc,                 \* where the caller is
    credentials,        \* InvoiceProcessor._credentials
    extracted_files,    \* process_zip_file: extracted_files
    task,               \* per dispatched file: "queued", "done" or "lost"
    outcome,            \* per dispatched file: what its worker call handed back
    finished,           \* the dispatched files in the order their workers finished
    results,            \* process_zip_file: results of pool.map
    output,             \* lines written to the CSV buffer, each a sequence of cells
    row_file,           \* per line of output, the loop index i that wrote it (-1: header)
    idx,                \* loop variable i of the collection loop
    total_records,
    files_processed,
    files_with_errors,
    error,              \* message of the exception that ended the call, if any
    cpus,               \* what cpu_count() returns on the host
    num_processes,      \* process_zip_file: num_processes (0 before line 289)
    wenv,               \* per pool process: its os.environ
    tmp_file_path,      \* the temporary archive copy: "none", "present" or "deleted"
    temp_dir            \* the extraction directory: "none", "present" or "deleted"

vars == <<env, archive, pc, credentials, extracted_files, task, outcome, finished, results,
          output, row_file, idx, total_records, files_processed, files_with_errors,
          error, cpus, num_processes, wenv, tmp_file_path, temp_dir>>

NoCredentials == [k \in {} |-> k]

\* the state in which process_zip_invoices is entered with environment e,
\* uploaded archive a and n processors
Start(e, a, n) ==
    /\ env = e
    /\ archive = a
    /\ cpus = n
    /\ num_processes = 0
    /\ wenv = <<>>
    /\ tmp_file_path = "none"
    /\ temp_dir = "none"
    /\ pc = "start"
    /\ credentials = NoCredentials
    /\ extracted_files = <<>>
    /\ task = <<>>
    /\ outcome = <<>>
    /\ finished = <<>>
    /\ results = <<>>
    /\ output = <<>>
    /\ row_file = <<>>
    /\ idx = 0
    /\ total_records = 0
    /\ files_processed = 0
    /\ files_with_errors = 0
    /\ error = ""

Init == \E e \in Envs, a \in Archives : Start(e, a, HostCpus)

ConfigMsg == "Missing required environment variables for Azure or Pezzo configuration"
NoFilesMsg == "No valid document files found in the zip archive"
BadZipMsg == "File is not a zip file"

\* line 393: all([AZURE_ENDPOINT, AZURE_KEY, PEZZO_API_KEY, PEZZO_PROJECT_ID])
ConfigComplete(e) == \A v \in CredentialVars : GetenvTruthy(e, v)

\* InvoiceProcessor.__init__, lines 158-163
MakeCredentials(e) ==
    [k \in {"azure_endpoint", "azure_key", "pezzo_api_key", "PEZZO_PROJECT_ID_3"} |->
        CASE k = "azure_endpoint" -> e["VISION_ENDPOINT"]
          [] k = "azure_key" -> e["VISION_KEY"]
          [] k = "pezzo_api_key" -> e["PEZZO_API_KEY"]
          [] k = "PEZZO_PROJECT_ID_3" -> e["PEZZO_PROJECT_ID_3"]]

\* create_processor, lines 388-400
CreateProcessor ==
    /\ pc = "start"
    /\ IF ConfigComplete(env)
       THEN /\ credentials' = MakeCredentials(env)
            /\ pc' = "created"
            /\ error' = error
       ELSE /\ credentials' = credentials
            /\ pc' = "config_error"
            /\ error' = ConfigMsg
    /\ UNCHANGED <<env, archive, cpus, tmp_file_path, temp_dir, num_processes, wenv,
                   extracted_files, task, outcome, finished, results,
                   output, row_file, idx, total_records, files_processed,
                   files_with_errors>>

\* csv.DictWriter.writerow: the cells of a row in column order
WriteRow(row) == [j \in 1..Len(fieldnames) |-> row[fieldnames[j]]]

\* frontend1.py, lines 150-152: the uploaded bytes are written to a named
\* temporary file that outlives the with block (delete=False)
SaveUpload ==
    /\ pc = "created"
    /\ tmp_file_path' = "present"
    /\ pc' = "saved"
    /\ UNCHANGED <<env, archive, cpus, temp_dir, num_processes, wenv, credentials,
                   extracted_files, task, outcome, finished, results, output, row_file,
                   idx, total_records, files_processed, files_with_errors, error>>

\* mutant: three quarters of the processors, without the floor of one
NumProcessesNoMax(n) == (n * 3) \div 4

\* line 289: max(1, int(cpu_count() * 0.75)); the product is exact in
\* floating point, so int() is the integer quotient of 3n by 4
NumProcesses(n) == IF (n * 3) \div 4 >= 1 THEN (n * 3) \div 4 ELSE 1

\* process_zip_file, lines 270-301: extraction, the empty check, the header,
\* the worker count, the creation of the pool (each pool process starts with
\* a copy of the environment) and the hand-over of worker_args to it;
\* line 167 creates the extraction directory before the archive is opened
ProcessZipStart ==
    /\ pc = "saved"
    /\ temp_dir' = "present"
    /\ LET x == extract_zip_files(archive)
       IN IF x.raised
          THEN /\ pc' = "raised"
               /\ error' = BadZipMsg
               /\ UNCHANGED <<extracted_files, task, outcome, output, row_file,
                              num_processes, wenv>>
          ELSE IF x.files = <<>>
          THEN /\ pc' = "raised"
               /\ error' = NoFilesMsg
               /\ UNCHANGED <<extracted_files, task, outcome, output, row_file,
                              num_processes, wenv>>
          ELSE /\ extracted_files' = x.files
               /\ output' = <<fieldnames>>
               /\ row_file' = <<-1>>
               /\ task' = [i \in 1..Len(x.files) |-> "queued"]
               /\ outcome' = [i \in 1..Len(x.files) |-> WorkerReturns(<<>>)]
               /\ num_processes' = NumProcesses(cpus)
               /\ wenv' = [p \in 1..NumProcesses(cpus) |-> env]
               /\ pc' = "map"
               /\ error' = error
    /\ UNCHANGED <<env, archive, cpus, tmp_file_path, credentials, finished, results, idx,
                   total_records, files_processed, files_with_errors>>

\* mutant: only the OCR half of the bundle is handed to the workers
worker_argsOcrOnly ==
    [i \in 1..Len(extracted_files) |->
        <<extracted_files[i], [k \in {"azure_endpoint", "azure_key"} |-> credentials[k]]>>]

\* line 293
worker_args == [i \in 1..Len(extracted_files) |-> <<extracted_files[i], credentials>>]

\* a pool process runs the worker on one file and hands its result back
WorkerRun(i, p) ==
    /\ pc = "map"
    /\ task[i] = "queued"
    /\ outcome' = [outcome EXCEPT ![i] = process_single_file_worker(worker_args[i], wenv[p])]
    /\ wenv' = [wenv EXCEPT ![p] = WorkerEnvAfter(worker_args[i], wenv[p])]
    /\ task' = [task EXCEPT ![i] = "done"]
    /\ finished' = Append(finished, i)
    /\ UNCHANGED <<env, archive, cpus, tmp_file_path, temp_dir, num_processes,
                   pc, credentials, extracted_files, results, output,
                   row_file, idx, total_records, files_processed, files_with_errors,
                   error>>

\* the pool process dies while it holds the file (killed, out of memory,
\* SystemExit): the pool starts a new process but the task is not run again
WorkerCrash(i) ==
    /\ pc = "map"
    /\ task[i] = "queued"
    /\ task' = [task EXCEPT ![i] = "lost"]
    /\ UNCHANGED <<env, archive, cpus, tmp_file_path, temp_dir, num_processes, wenv,
                   pc, credentials, extracted_files, outcome, finished,
                   results, output, row_file, idx, total_records, files_processed,
                   files_with_errors, error>>

\* mutant: the results are gathered in the order the workers finished
MapResultsUnordered(outcomes) ==
    [k \in 1..Len(finished) |-> outcomes[finished[k]].value]

\* line 301: the list pool.map returns, one result per argument, in the
\* order of the arguments
MapResults(outcomes) == [i \in 1..Len(outcomes) |-> outcomes[i].value]

\* mutant: the caller goes on as soon as one result is in, taking the other
\* entries as they stand
PoolMapReturnEarly ==
    /\ pc = "map"
    /\ \E i \in 1..Len(task) : task[i] = "done"
    /\ results' = MapResults(outcome)
    /\ idx' = 0
    /\ total_records' = 0
    /\ files_processed' = 0
    /\ files_with_errors' = 0
    /\ pc' = "collect"
    /\ error' = error
    /\ wenv' = <<>>
    /\ UNCHANGED <<env, archive, cpus, tmp_file_path, temp_dir, num_processes, credentials,
                   extracted_files, task, outcome, finished, output, row_file>>

\* lines 297-301: pool.map returns once every task has handed back its result,
\* re-raising the first exception a worker raised
PoolMapReturn ==
    /\ pc = "map"
    /\ \A i \in 1..Len(task) : task[i] = "done"
    /\ IF \E i \in 1..Len(outcome) : outcome[i].kind = "raise"
       THEN /\ pc' = "raised"
            /\ error' = outcome[CHOOSE i \in 1..Len(outcome) :
                                   /\ outcome[i].kind = "raise"
                                   /\ \A j \in 1..(i - 1) : outcome[j].kind # "raise"].msg
            /\ UNCHANGED <<results, idx, total_records, files_processed,
                           files_with_errors>>
       ELSE /\ results' = MapResults(outcome)
            /\ idx' = 0
            /\ total_records' = 0
            /\ files_processed' = 0
            /\ files_with_errors' = 0
            /\ pc' = "collect"
            /\ error' = error
    /\ wenv' = <<>>
    /\ UNCHANGED <<env, archive, cpus, tmp_file_path, temp_dir, num_processes, credentials,
                   extracted_files, task, outcome, finished, output, row_file>>

\* mutant: a record without the key counts as an error
HasErrorMissingKey(file_results) ==
    \E j \in 1..Len(file_results) :
        \/ "processing_error" \notin DOMAIN file_results[j]
        \/ file_results[j]["processing_error"] # NA

\* line 315
HasError(file_results) ==
    \E j \in 1..Len(file_results) :
        /\ "processing_error" \in DOMAIN file_results[j]
        /\ file_results[j]["processing_error"] # NA

\* line 323
RowData(record) == [f \in FieldSet |-> IF f \in DOMAIN record THEN record[f] ELSE NA]

\* str(i): the decimal digits of a natural number
RECURSIVE Digits(_)
Digits(i) == IF i < 10 THEN <<ToString(i)>> ELSE Append(Digits(i \div 10), ToString(i % 10))

\* line 332: the text unknown_file_ followed by the index, as characters
UnknownFile(i) ==
    <<"u", "n", "k", "n", "o", "w", "n", "_", "f", "i", "l", "e", "_">> \o Digits(i)

\* lines 331-335
SyntheticErrorRecord(i) ==
    [f \in FieldSet |->
        IF f = "source_file" THEN UnknownFile(i)
        ELSE IF f = "processing_error" THEN "No results returned from worker"
        ELSE NA]

\* mutant: an empty result is logged and contributes no line
RowsForNoSynthetic(i, file_results) ==
    [j \in 1..Len(file_results) |-> WriteRow(RowData(file_results[j]))]

\* lines 320-337: the lines one file contributes to the CSV
RowsFor(i, file_results) ==
    IF file_results # <<>>
    THEN [j \in 1..Len(file_results) |-> WriteRow(RowData(file_results[j]))]
    ELSE <<WriteRow(SyntheticErrorRecord(i))>>

\* lines 310-337: one iteration of the collection loop
CollectStep ==
    /\ pc = "collect"
    /\ idx < Len(results)
    /\ LET file_results == results[idx + 1]
           rows == RowsFor(idx, file_results)
       IN /\ files_processed' =
                 IF file_results # <<>> THEN files_processed + 1 ELSE files_processed
          /\ files_with_errors' =
                 IF file_results = <<>> \/ HasError(file_results)
                 THEN files_with_errors + 1 ELSE files_with_errors
          /\ output' = output \o rows
          /\ row_file' = row_file \o [j \in 1..Len(rows) |-> idx]
          /\ total_records' = total_records + Len(rows)
    /\ idx' = idx + 1
    /\ UNCHANGED <<env, archive, cpus, tmp_file_path, temp_dir, num_processes, wenv,
                   pc, credentials, extracted_files, task, outcome,
                   finished, results, error>>

\* lines 339-353: the summary is logged and output.getvalue() returned
ReturnCsv ==
    /\ pc = "collect"
    /\ idx = Len(results)
    /\ pc' = "returned"
    /\ UNCHANGED <<env, archive, cpus, tmp_file_path, temp_dir, num_processes, wenv,
                   credentials, extracted_files, task, outcome, finished,
                   results, output, row_file, idx, total_records, files_processed,
                   files_with_errors, error>>

\* frontend1.py, lines 160-174: the temporary archive copy is unlinked and
\* the CSV stored in the session
CleanupOk ==
    /\ pc = "returned"
    /\ tmp_file_path' = "deleted"
    /\ pc' = "complete"
    /\ UNCHANGED <<env, archive, cpus, temp_dir, num_processes, wenv, credentials,
                   extracted_files, task, outcome, finished, results, output, row_file,
                   idx, total_records, files_processed, files_with_errors, error>>

\* frontend1.py, lines 176-182: the except clause shows the error and unlinks
\* the temporary archive copy (an exception of create_processor is shown in
\* the same way, before any temporary file exists)
CleanupError ==
    /\ pc = "raised"
    /\ tmp_file_path' = IF tmp_file_path = "present" THEN "deleted" ELSE tmp_file_path
    /\ pc' = "failed"
    /\ UNCHANGED <<env, archive, cpus, temp_dir, num_processes, wenv, credentials,
                   extracted_files, task, outcome, finished, results, output, row_file,
                   idx, total_records, files_processed, files_with_errors, error>>

Next ==
    \/ CreateProcessor
    \/ SaveUpload
    \/ ProcessZipStart
    \/ \E i \in 1..Len(task), p \in 1..num_processes : WorkerRun(i, p)
    \/ \E i \in 1..Len(task) : WorkerCrash(i)
    \/ PoolMapReturn
    \/ CollectStep
    \/ ReturnCsv
    \/ CleanupOk
    \/ CleanupError

Spec == Init /\ [][Next]_vars

\* Batches of a single entry, for what the per-file processor returns: any
\* environment and any entry of the catalogue.
InitFile ==
    \E e \in Envs, f \in Catalogue :
        Start(e, [corrupt |-> FALSE, entries |-> <<f>>], HostCpus)

SpecFile == InitFile /\ [][Next]_vars

\* Batches for the worker-count policy: a complete environment, an archive
\* of one document or an unreadable one, and any number of processors.
\* a readable document a.pdf whose LLM response is resp
DocA(resp) == File(<<>>, <<"a", ".", "p", "d", "f">>, "ok", resp)

WorkerArchives ==
    {[corrupt |-> TRUE, entries |-> <<>>],
     [corrupt |-> FALSE, entries |-> <<DocA(RespWidget)>>]}

InitWorkers == \E a \in WorkerArchives, n \in 1..MaxCpu : Start(FullEnv, a, n)

SpecWorkers == InitWorkers /\ [][Next]_vars

\* Batches for the unwrapping of the response: a complete environment and an
\* archive of one document whose LLM response is any text of at most MaxResp
\* lexemes, or an unreadable archive.
ResponseLexemes == {P("{"), P("}"), P(":"), S("k"), Ws, FenceJson, Fence}

Responses == SeqsUpTo(ResponseLexemes, MaxResp)

UnwrapArchives ==
    {[corrupt |-> TRUE, entries |-> <<>>]}
    \cup {[corrupt |-> FALSE, entries |-> <<DocA(r)>>] : r \in Responses}

InitUnwrap == \E a \in UnwrapArchives : Start(FullEnv, a, HostCpus)

SpecUnwrap == InitUnwrap /\ [][Next]_vars

\* ========================================================================
\* Properties
\* ========================================================================
HasLexeme(t, c) == \E i \in 1..Len(t) : t[i] = c

\* The failure a file meets in the worker, told from the inputs alone: the
\* description of the first failing step, "" when no step fails.
ExpectedFailure(f, e) ==
    IF f.step = "ocr_raise" THEN OcrMsg
    ELSE IF f.step = "prompt_raise" THEN PromptMsg
    ELSE IF "AZURE_MODEL_DEPLOYMENT_NAME" \notin DOMAIN e THEN DeploymentMsg
    ELSE IF f.step = "llm_raise" THEN LlmMsg
    ELSE IF ~HasLexeme(f.resp, P("{")) \/ ~HasLexeme(f.resp, P("}")) THEN NoJsonMsg
    ELSE IF f.resp = RespBad THEN JsonErrMsg
    ELSE IF f.resp = RespItemsNum THEN NotIterableMsg
    ELSE ""

\* The extension of a file name: from its last dot on, in lower case.
ExtensionOf(name) ==
    IF \E i \in 1..Len(name) : name[i] = "."
    THEN LET last == CHOOSE i \in 1..Len(name) :
                         name[i] = "." /\ \A j \in (i + 1)..Len(name) : name[j] # "."
         IN Lower(SubSeq(name, last, Len(name)))
    ELSE <<>>

EligibleEntries(zip) ==
    {i \in 1..Len(zip.entries) : ExtensionOf(zip.entries[i].file) \in ValidExtensions}

\* C1: process_single_file_worker never raises past its boundary; on every
\* internal failure (OCR raises, prompt fetch or LLM call raises, no JSON
\* object, unparsable span, missing deployment name) it returns exactly one
\* record with source_file = the basename, processing_error = the failure
\* description and every other declared field "N/A".
C1_WorkerNeverRaises ==
    \A i \in 1..Len(task) :
        task[i] = "done" =>
            /\ outcome[i].kind = "return"
            /\ LET f == extracted_files[i]
                   cause == ExpectedFailure(f, env)
                   value == outcome[i].value
               IN cause # "" =>
                      /\ Len(value) = 1
                      /\ DOMAIN value[1] = FieldSet
                      /\ value[1]["source_file"] = f.file
                      /\ value[1]["processing_error"] = cause
                      /\ \A k \in FieldSet \ {"source_file", "processing_error"} :
                             value[1][k] = NA

\* C1 witness: a worker has returned the error record of a response that
\* holds no JSON object.
C1_Witness ==
    \E i \in 1..Len(task) :
        /\ task[i] = "done"
        /\ extracted_files[i].resp = RespNoJson
        /\ outcome[i].kind = "return"
        /\ Len(outcome[i].value) = 1
        /\ outcome[i].value[1]["processing_error"] = NoJsonMsg

\* C2: the header is the first line written; when process_zip_file ends for
\* an archive with at least one eligible document, it ends by returning (not
\* by raising) a CSV that holds at least one data line for each eligible
\* file, whatever the workers returned (records, an error record, an empty
\* list).
C2_EveryFileHasRow ==
    /\ output # <<>> => output[1] = fieldnames
    /\ pc \in {"raised", "returned"} =>
           LET n == Cardinality(EligibleEntries(archive))
           IN (~archive.corrupt /\ n >= 1) =>
                  /\ pc = "returned"
                  /\ Len(output) >= 1
                  /\ Len(extracted_files) = n
                  /\ \A i \in 0..(n - 1) :
                         \E k \in 2..Len(output) : row_file[k] = i

\* C2 witness: the call has returned a CSV for a batch in which one worker
\* returned an empty list and another an error record.
C2_Witness ==
    /\ pc = "returned"
    /\ \E i \in 1..Len(results) : results[i] = <<>>
    /\ \E j \in 1..Len(results) : results[j] # <<>> /\ HasError(results[j])

\* C3: nothing is dispatched or written before process_zip_file runs, and
\* for an archive with no eligible document (empty, or only names whose
\* extension, compared without case, is not an allowed one) it raises: no
\* worker is dispatched and no CSV line is written.
C3_NoEligibleRaises ==
    IF pc \in {"start", "config_error", "created", "saved"}
    THEN task = <<>> /\ extracted_files = <<>> /\ output = <<>>
    ELSE (/\ ~archive.corrupt
          /\ \A i \in 1..Len(archive.entries) :
                 ExtensionOf(archive.entries[i].file) \notin ValidExtensions) =>
             /\ pc \in {"raised", "failed"}
             /\ error = NoFilesMsg
             /\ task = <<>>
             /\ extracted_files = <<>>
             /\ output = <<>>

\* C3 witness: the call has raised for an archive that holds files, none of
\* them eligible.
C3_Witness ==
    /\ pc = "raised"
    /\ error = NoFilesMsg
    /\ Len(archive.entries) >= 2
    /\ \E i \in 1..Len(archive.entries) : archive.entries[i].file = <<"p", "d", "f">>

\* The lines of the CSV written by iteration i of the collection loop.
LinesOf(i) ==
    LET F[k \in 0..Len(output)] ==
            IF k = 0 THEN <<>>
            ELSE IF row_file[k] = i THEN Append(F[k - 1], output[k]) ELSE F[k - 1]
    IN F[Len(output)]

\* The data lines a file yields when its worker result is written alone.
RowsAlone(f) ==
    LET r == process_single_file_worker(<<f, credentials>>, env).value
    IN [j \in 1..Len(r) |-> WriteRow(RowData(r[j]))]

\* A file whose processing succeeds with at least one record.
Succeeds(f, e) == ExpectedFailure(f, e) = "" /\ f.resp # RespNonDict

\* C4: per-file isolation.  When process_zip_file ends for a batch in which
\* exactly one file fails and the others succeed, under every order in which
\* the workers finish, it ends by returning (not by raising) and the CSV
\* holds, for each other file, exactly the lines that file yields on its
\* own, and for the failing file exactly one error line.
C4_PerFileIsolation ==
    pc \in {"raised", "returned"} =>
        LET E == EligibleEntries(archive)
            failing == {i \in E : ExpectedFailure(archive.entries[i], env) # ""}
        IN (/\ ~archive.corrupt
            /\ Cardinality(failing) = 1
            /\ \A i \in E \ failing : Succeeds(archive.entries[i], env)) =>
               /\ pc = "returned"
               /\ Len(extracted_files) = Cardinality(E)
               /\ \A k \in 2..Len(output) : row_file[k] \in 0..(Len(extracted_files) - 1)
               /\ \A i \in 1..Len(extracted_files) :
                      LET f == extracted_files[i]
                          cause == ExpectedFailure(f, env)
                      IN IF cause # ""
                         THEN LinesOf(i - 1) = <<WriteRow(ErrorRecord(f.file, cause))>>
                         ELSE LinesOf(i - 1) = RowsAlone(f)

\* C4 witness: a returned batch of two files in which the file dispatched
\* first finished last, one file failed on a malformed response and the
\* other succeeded.
C4_Witness ==
    /\ pc = "returned"
    /\ Len(extracted_files) = 2
    /\ finished = <<2, 1>>
    /\ \E i \in 1..2 : extracted_files[i].resp = RespBad
    /\ \E i \in 1..2 : Succeeds(extracted_files[i], env)

\* The object parsed from the response of a file whose processing succeeds.
ParsedOf(f) == ExtractJson(f.resp).data

\* The text a header column shows for a parsed object: the value's string,
\* "N/A" when the key is absent.
HeaderText(data, h) == IF h \in DOMAIN data.d THEN PyStr(data.d[h]) ELSE NA

\* C5 (as stated): every record a worker returns has exactly the declared
\* field set as its keys, processing_error being "N/A" on success.
C5_ExactFieldSet ==
    \A i \in 1..Len(task) :
        task[i] = "done" =>
            \A j \in 1..Len(outcome[i].value) :
                DOMAIN outcome[i].value[j] = FieldSet

\* C5 (amended): every record a worker returns has only declared keys; an
\* error record has all eight, a success record has the seven other than
\* processing_error.
C5_DeclaredKeysOnly ==
    \A i \in 1..Len(task) :
        task[i] = "done" =>
            \A j \in 1..Len(outcome[i].value) :
                LET r == outcome[i].value[j]
                IN /\ DOMAIN r \subseteq FieldSet
                   /\ IF ExpectedFailure(extracted_files[i], env) # ""
                      THEN DOMAIN r = FieldSet
                      ELSE DOMAIN r = FieldSet \ {"processing_error"}

\* C5 witness: a worker has returned the two success records of a response
\* that carries an undeclared key.
C5_Witness ==
    \E i \in 1..Len(task) :
        /\ task[i] = "done"
        /\ extracted_files[i].resp = RespTwo
        /\ "vendor_name" \in DOMAIN ParsedOf(extracted_files[i]).d
        /\ Len(outcome[i].value) = 2

ColumnOf(field) == CHOOSE j \in 1..Len(fieldnames) : fieldnames[j] = field

\* C6 (as stated): every data line of the CSV has a value in each of the
\* eight columns, and a value missing from the source record (absent key or
\* JSON null) shows as "N/A", never as an empty string or a null marker.
C6_NoNullMarker ==
    \A k \in 2..Len(output) :
        /\ Len(output[k]) = Len(fieldnames)
        /\ output[k][ColumnOf("source_file")] # <<>>
        /\ \A j \in 1..Len(fieldnames) :
               j # ColumnOf("source_file") => output[k][j] \notin {"", "None"}
        /\ LET f == extracted_files[row_file[k] + 1]
           IN ExpectedFailure(f, env) = "" /\ results[row_file[k] + 1] # <<>> =>
                  \A h \in HeaderKeys :
                      (h \notin DOMAIN ParsedOf(f).d \/ ParsedOf(f).d[h] = JNone) =>
                          output[k][ColumnOf(h)] = NA

\* The elements of a list that are dicts, in order.
RECURSIVE DictItems(_)
DictItems(l) ==
    IF l = <<>> THEN <<>>
    ELSE (IF Head(l).t = "dict" THEN <<Head(l)>> ELSE <<>>) \o DictItems(Tail(l))

HasItems(data) ==
    /\ "items" \in DOMAIN data.d
    /\ data.d["items"].t = "list"
    /\ data.d["items"].l # <<>>

\* C7 (as stated): a present, non-empty items array yields as many records
\* as it has elements.
C7_OneRecordPerElement ==
    \A i \in 1..Len(task) :
        LET f == extracted_files[i]
        IN (task[i] = "done" /\ ExpectedFailure(f, env) = "" /\ HasItems(ParsedOf(f))) =>
               Len(outcome[i].value) = Len(ParsedOf(f).d["items"].l)

\* C7 (amended): a present, non-empty items array yields one record per
\* element that is a JSON object, in order, each with the header fields of
\* the response and that element's item_description and qty; the other
\* elements yield nothing.
C7_OneRecordPerObject ==
    \A i \in 1..Len(task) :
        LET f == extracted_files[i]
            data == ParsedOf(f)
        IN (task[i] = "done" /\ ExpectedFailure(f, env) = "" /\ HasItems(data)) =>
               LET objs == DictItems(data.d["items"].l)
                   value == outcome[i].value
               IN /\ Len(value) = Len(objs)
                  /\ \A k \in 1..Len(objs) :
                         /\ value[k]["source_file"] = f.file
                         /\ \A h \in HeaderKeys : value[k][h] = HeaderText(data, h)
                         /\ \A h \in ItemKeys : value[k][h] = HeaderText(objs[k], h)

\* C7 witness: a worker has returned one record for an items array of two
\* elements, one of them a number.
C7_Witness ==
    \E i \in 1..Len(task) :
        /\ task[i] = "done"
        /\ extracted_files[i].resp = RespMixed
        /\ Len(ParsedOf(extracted_files[i]).d["items"].l) = 2
        /\ Len(outcome[i].value) = 1
        /\ outcome[i].value[1]["qty"] = "2"

\* C8: a response without an items key, or with an empty items list, yields
\* exactly one record, with item_description = qty = "N/A" and the header
\* fields of the response.
C8_NoItemsOneRecord ==
    \A i \in 1..Len(task) :
        LET f == extracted_files[i]
            data == ParsedOf(f)
        IN (/\ task[i] = "done"
            /\ ExpectedFailure(f, env) = ""
            /\ ("items" \notin DOMAIN data.d \/ data.d["items"] = JList(<<>>))) =>
               LET value == outcome[i].value
               IN /\ Len(value) = 1
                  /\ value[1]["item_description"] = NA
                  /\ value[1]["qty"] = NA
                  /\ value[1]["source_file"] = f.file
                  /\ \A h \in HeaderKeys : value[1][h] = HeaderText(data, h)

\* C8 witness: a worker has returned the single record of a response whose
\* items list is empty.
C8_Witness ==
    \E i \in 1..Len(task) :
        /\ task[i] = "done"
        /\ extracted_files[i].resp = RespEmptyItems
        /\ ParsedOf(extracted_files[i]).d["items"] = JList(<<>>)
        /\ Len(outcome[i].value) = 1
        /\ outcome[i].value[1]["invoice_number"] = "INV-4"

\* C9 (as stated): when a worker fails catastrophically the coordinator
\* still gets past pool.map with a result for every file; it is never left
\* waiting for a result that cannot come.
C9_NeverStuckOnLostWorker ==
    ~(/\ pc = "map"
      /\ \E i \in 1..Len(task) : task[i] = "lost"
      /\ \A i \in 1..Len(task) : task[i] # "queued")

\* C10 (as stated): a missing required configuration value is raised by
\* create_processor, before extraction and dispatch, and never becomes a
\* per-file error row.
C10_ConfigFailsFast ==
    /\ (\E v \in EnvVars : ~GetenvTruthy(env, v)) => pc \in {"start", "config_error"}
    /\ \A i \in 1..Len(task) :
           task[i] = "done" =>
               \A j \in 1..Len(outcome[i].value) :
                   LET r == outcome[i].value[j]
                   IN "processing_error" \in DOMAIN r => r["processing_error"] # DeploymentMsg

\* C11: the three phases do not overlap.  Workers exist only once
\* extraction has produced the complete list of eligible files, one worker
\* per file, and no data line is in the CSV before every dispatched worker
\* has handed back its result and pool.map has returned.
C11_PhasesDoNotOverlap ==
    /\ Len(task) = Len(extracted_files)
    /\ pc = "map" /\ finished = <<>> => extracted_files = WalkFiles(archive.entries)
    /\ pc = "map" => output = <<fieldnames>>
    /\ Len(output) >= 2 =>
           /\ pc # "map"
           /\ \A i \in 1..Len(task) : task[i] = "done"

\* C11 witness: the first data line has been written, after both workers of
\* a two-file batch finished.
C11_Witness ==
    /\ pc = "collect"
    /\ Len(output) = 2
    /\ Len(task) = 2
    /\ Len(finished) = 2

\* The lines the CSV must hold for the file at position i of the extracted
\* list (counted from 1): its own lines, or the synthetic line of its index.
ExpectedLines(i) ==
    LET own == RowsAlone(extracted_files[i])
    IN IF own # <<>> THEN own ELSE <<WriteRow(SyntheticErrorRecord(i - 1))>>

RECURSIVE ExpectedCsv(_)
ExpectedCsv(n) == IF n = 0 THEN <<fieldnames>> ELSE ExpectedCsv(n - 1) \o ExpectedLines(n)

\* C12: the data lines are grouped by file, in the order of the extracted
\* file list, whatever the order in which the workers finished: the CSV is
\* the header followed by the lines of file 1, then of file 2, and so on.
C12_RowsInFileOrder ==
    /\ \A k, l \in 2..Len(output) : k < l => row_file[k] <= row_file[l]
    /\ pc = "returned" => output = ExpectedCsv(Len(extracted_files))

\* C12 witness: a CSV has been returned whose first file, finished last,
\* contributed two lines ahead of the line of the second file.
C12_Witness ==
    /\ pc = "returned"
    /\ Len(extracted_files) = 2
    /\ finished = <<2, 1>>
    /\ extracted_files[1].resp = RespTwo
    /\ extracted_files[2].resp = RespNoItems
    /\ row_file = <<-1, 0, 0, 1>>

\* The result at position i of the collected results is missing or empty.
EmptyResult(i) == Len(results[i]) = 0

\* The result at position i holds a record whose processing_error is present
\* and is not the text N/A.
ErrorInResult(i) ==
    \E j \in DOMAIN results[i] :
        IF "processing_error" \in DOMAIN results[i][j]
        THEN results[i][j].processing_error # NA
        ELSE FALSE

\* C18: after the collection loop the counters agree with the collected
\* results: total_records is the number of data lines, files_processed plus
\* the number of empty results is the number of dispatched files,
\* files_with_errors is the number of files whose result is empty or holds a
\* record with an error, at most the number of files; and the call does not
\* raise once the results are collected.
C18_CountersAgree ==
    /\ pc = "returned" =>
           LET n == Len(task)
               empty == {i \in 1..n : EmptyResult(i)}
               errored == {i \in 1..n : EmptyResult(i) \/ ErrorInResult(i)}
           IN /\ Len(results) = n
              /\ total_records = Len(output) - 1
              /\ files_processed + Cardinality(empty) = n
              /\ files_with_errors = Cardinality(errored)
              /\ files_with_errors <= n
    /\ results # <<>> => pc \in {"collect", "returned", "complete"}

\* C18 witness: a returned batch of two files, one with an empty result and
\* one without any error, so the three counters differ from one another.
C18_Witness ==
    /\ pc = "returned"
    /\ Len(results) = 2
    /\ EmptyResult(1)
    /\ ~EmptyResult(2) /\ ~ErrorInResult(2)
    /\ files_with_errors = 1
    /\ files_processed = 1
    /\ total_records = 2

\* C19: every data line names its file: its source_file is the basename of
\* an extracted file, and each extracted file has a line carrying its own
\* basename, the synthetic line of an empty result included.
C19_EveryRowNamesItsFile ==
    pc = "returned" =>
        LET names == {extracted_files[i].file : i \in 1..Len(extracted_files)}
        IN /\ \A k \in 2..Len(output) : output[k][ColumnOf("source_file")] \in names
           /\ \A i \in 1..Len(extracted_files) :
                  \E k \in 2..Len(output) :
                      /\ row_file[k] = i - 1
                      /\ output[k][ColumnOf("source_file")] = extracted_files[i].file

\* C13: every temporary directory or file created for the batch is deleted
\* by the time process_zip_invoices ends, on every exit path.
C13_TempResourcesReleased ==
    pc \in {"complete", "failed", "config_error"} =>
        /\ tmp_file_path # "present"
        /\ temp_dir # "present"

\* C14: the worker count is max(1, floor(0.75 n)) for n processors: at least
\* 1, at most n, the largest k with 4k <= 3n unless that is 0, 6 for n = 8 and
\* 1 for n = 1.
C14_WorkerCountPolicy ==
    task # <<>> =>
        /\ num_processes \in 1..cpus
        /\ 4 * num_processes <= 3 * cpus \/ (num_processes = 1 /\ 3 * cpus < 4)
        /\ 3 * cpus < 4 * (num_processes + 1)
        /\ cpus = 8 => num_processes = 6
        /\ cpus = 1 => num_processes = 1
        /\ pc = "map" => Len(wenv) = num_processes

\* C14 witness: the pool of a host with 8 processors has run its worker.
C14_Witness ==
    /\ cpus = 8
    /\ num_processes = 6
    /\ pc = "map"
    /\ Len(finished) = 1

\* The bundle __init__ captures from an environment e (lines 158-163).
BundleOf(e) ==
    [azure_endpoint |-> e["VISION_ENDPOINT"], azure_key |-> e["VISION_KEY"],
     pezzo_api_key |-> e["PEZZO_API_KEY"], PEZZO_PROJECT_ID_3 |-> e["PEZZO_PROJECT_ID_3"]]

\* What the per-file processor returns for file f when it runs alone in a
\* fresh process that has the environment of the caller.
Alone(f) == process_single_file_worker(<<f, BundleOf(env)>>, env)

\* C15: per-file processing is deterministic: whichever pool process ran a
\* file, whatever that process ran before and whatever else is in the batch,
\* the records handed back for the file are those of a run of the file alone
\* in a fresh process; no run leaves anything behind in its process that a
\* later run could read.
C15_Deterministic ==
    /\ \A p \in 1..Len(wenv) : wenv[p] = env
    /\ pc = "map" =>
           \A i \in 1..Len(task) :
               task[i] = "done" => outcome[i] = Alone(extracted_files[i])
    /\ pc = "collect" /\ idx = 0 =>
           \A i \in 1..Len(task) : results[i] = Alone(extracted_files[i]).value

\* C15 witness: two files with invoice lines have been processed by the
\* pool of two processes, the second file first.
C15_Witness ==
    /\ pc = "map"
    /\ num_processes = 2
    /\ finished = <<2, 1>>
    /\ extracted_files[1].resp = RespWidget
    /\ extracted_files[2].resp = RespTwo
    /\ Len(outcome[1].value) = 1
    /\ Len(outcome[2].value) = 2

\* C16: the credential bundle is fixed at construction and never changed:
\* before construction there is none, afterwards it is the four values taken
\* from the environment at construction, in every later step, and every
\* worker is handed exactly that bundle.
C16_CredentialsFixed ==
    /\ pc \in {"start", "config_error"} => credentials = NoCredentials
    /\ pc \notin {"start", "config_error"} =>
           /\ credentials = BundleOf(env)
           /\ DOMAIN credentials =
                  {"azure_endpoint", "azure_key", "pezzo_api_key", "PEZZO_PROJECT_ID_3"}
           /\ Len(worker_args) = Len(task)
           /\ \A i \in 1..Len(task) : worker_args[i] = <<extracted_files[i], BundleOf(env)>>

\* C16 witness: both workers of a batch have run with the bundle and the
\* CSV has been assembled.
C16_Witness ==
    /\ pc = "returned"
    /\ Len(finished) = 2
    /\ credentials = BundleOf(FullEnv)

\* Positions (from 1) of the opening and of the closing braces of a text.
Opens(t) == {i \in 1..Len(t) : t[i] = P("{")}
Closes(t) == {i \in 1..Len(t) : t[i] = P("}")}
FirstOpen(t) == CHOOSE i \in Opens(t) : \A j \in Opens(t) : i <= j
LastClose(t) == CHOOSE i \in Closes(t) : \A j \in Closes(t) : j <= i

\* The text has an opening brace, a closing brace, and its last closing
\* brace comes after its first opening brace.
HasSpan(t) == Opens(t) # {} /\ Closes(t) # {} /\ FirstOpen(t) < LastClose(t)

\* The span from the first opening brace to the last closing brace inclusive.
Span(t) == [k \in 1..(LastClose(t) - FirstOpen(t) + 1) |-> t[FirstOpen(t) + k - 1]]

\* C17: the text handed to the JSON parser is the span from the first
\* opening brace to the last closing brace of the trimmed, unfenced response:
\* the file's records are those built from the parse of exactly that span, or
\* the single error record of a failed parse of it; a response without such a
\* span yields the single error record of the missing object, with no parse.
C17_Unwrapping ==
    \A i \in 1..Len(task) :
        task[i] = "done" =>
            LET t == RemoveFences(extracted_files[i].resp)
                name == extracted_files[i].file
                got == outcome[i].value
                failed_with(msg) ==
                    /\ Len(got) = 1
                    /\ DOMAIN got[1] = FieldSet
                    /\ got[1].source_file = name
                    /\ got[1].processing_error = msg
            IN /\ outcome[i].kind = "return"
               /\ IF ~HasSpan(t) THEN failed_with(NoJsonMsg)
                  ELSE LET r == JsonLoads(Span(t))
                       IN IF ~r.ok THEN failed_with(JsonErrMsg)
                          ELSE /\ r.v.t = "dict"
                               /\ got = BuildRecords(name, r.v).records

\* C17 witness: a response with text before and after an object has been
\* unwrapped and parsed into a record without a processing error.
C17_Witness ==
    /\ pc = "map"
    /\ task = <<"done">>
    /\ extracted_files[1].resp = <<S("k"), P("{"), P("}"), S("k")>>
    /\ Len(outcome[1].value) = 1
    /\ "processing_error" \notin DOMAIN outcome[1].value[1]

====
